---- MODULE Spec2Model ----
(***************************************************************************)
(* Pattern visualization front end of the beamforming tool.                *)
(*                                                                         *)
(*   Pattern3DViewer        (components/Pattern3DViewer.jsx): view mode,   *)
(*                          zoom / rotation / drag state, 2D canvas.       *)
(*   ThreeDPatternRenderer  (components/ThreeDPatternRenderer.jsx): the    *)
(*                          three.js scene bundle and its animation loop.  *)
(*                                                                         *)
(* Units: zoomLevel is kept in tenths (10 = 1.0), rotation in half degrees *)
(* (720 = 360 degrees), pointer coordinates in whole pixels, so that the   *)
(* factor 0.5 of the drag handler and the 0.2 zoom step are integers.      *)
(***************************************************************************)
EXTENDS Integers, Sequences, FiniteSets, TLC

\* ------------------------------------------------------------------ bounds
MaxMix     == 3      \* mix requests issued in one run
MaxCalcs   == 2      \* calculation requests issued in one run
MaxConfig  == 1      \* array configurations 0..MaxConfig, presets 1..MaxConfig
MaxPending == 1      \* scenario loads in flight, and 100 ms timers pending, at once
MaxPointer == 1      \* pointer columns 0..MaxPointer, 360 px apart
MaxBuilds  == 2      \* scene bundles built in one run
MaxTicks   == 3      \* animation ticks per scene bundle
MaxSize    == 2      \* container sizes a window resize can report
MaxElements == 4     \* elements of an array geometry
MaxAngles  == 4      \* angles and magnitudes of an azimuth pattern
MaxGrid    == 3      \* rows and columns of a grid
GrayLevels == 4      \* field values are multiples of 1/GrayLevels

\* ------------------------------------------------------- program constants
ZoomInit == 10       \* useState(1.0)
ZoomStep == 2        \* prev +/- 0.2
ZoomMax  == 30       \* Math.min(.., 3.0)
ZoomMin  == 5        \* Math.max(.., 0.5)
FullTurn == 720      \* % 360, in half degrees

ViewModes == {"array-geometry", "interference-plot", "azimuth-pattern", "3d-pattern"}

\* Pointer positions relative to the canvas (e.clientX - rect.left, ...).
Pointers == {[x |-> 360 * k, y |-> 100 * (k % 2)] : k \in 0..MaxPointer}

\* ----------------------------------------------------------------- payloads
\* A payload slice is "ok", "missing" (undefined), or "malformed" (pattern_3d
\* whose grids are empty or of different shapes: theta[0] / theta[i] is
\* undefined and createPatternSurface throws a TypeError).
NoData  == [present |-> FALSE, array_geometry |-> "missing",
            interference_pattern |-> "missing", azimuth_pattern |-> "missing",
            pattern_3d |-> "missing"]
FullPayload  == [present |-> TRUE, array_geometry |-> "ok",
                 interference_pattern |-> "ok", azimuth_pattern |-> "ok",
                 pattern_3d |-> "ok"]
EmptyPayload == [NoData EXCEPT !.present = TRUE]
BadPayload   == [FullPayload EXCEPT !.pattern_3d = "malformed"]
Payloads == {FullPayload, EmptyPayload, BadPayload}

\* ------------------------------------------------------------------ numbers
\* A JavaScript number is an exact fraction n/d (d > 0, lowest terms) or a
\* non-finite value: NaN, +-Infinity, or undefined once it enters arithmetic.
\* No code path modelled here turns a non-finite value back into a finite one.
Abs(x) == IF x < 0 THEN -x ELSE x

RECURSIVE GCD(_, _)
GCD(a, b) == IF b = 0 THEN a ELSE GCD(b, a % b)

Q(n, d) ==
    LET s == IF d < 0 THEN -1 ELSE 1
        g == GCD(Abs(n), Abs(d))
    IN [fin |-> TRUE, n |-> (s * n) \div g, d |-> (s * d) \div g]

Num(k) == Q(k, 1)
NonFinite == [fin |-> FALSE, n |-> 0, d |-> 1]

QAdd(a, b) == IF a.fin /\ b.fin THEN Q(a.n * b.d + b.n * a.d, a.d * b.d) ELSE NonFinite
QSub(a, b) == IF a.fin /\ b.fin THEN Q(a.n * b.d - b.n * a.d, a.d * b.d) ELSE NonFinite
QMul(a, b) == IF a.fin /\ b.fin THEN Q(a.n * b.n, a.d * b.d) ELSE NonFinite
\* x / 0 is +-Infinity and 0 / 0 is NaN
QDiv(a, b) == IF a.fin /\ b.fin /\ b.n # 0 THEN Q(a.n * b.d, a.d * b.n) ELSE NonFinite
\* every comparison with NaN is false
QLe(a, b) == a.fin /\ b.fin /\ a.n * b.d <= b.n * a.d
QLt(a, b) == a.fin /\ b.fin /\ a.n * b.d < b.n * a.d
\* Math.min / Math.max: NaN if an argument is NaN
QMin(a, b) == IF a.fin /\ b.fin THEN (IF QLe(a, b) THEN a ELSE b) ELSE NonFinite
QMax(a, b) == IF a.fin /\ b.fin THEN (IF QLe(a, b) THEN b ELSE a) ELSE NonFinite
QFloor(a) == IF a.fin THEN Num(a.n \div a.d) ELSE NonFinite
QCeil(a)  == IF a.fin THEN Num(-((-a.n) \div a.d)) ELSE NonFinite
\* v || 1: 0 and NaN are falsy
OrOne(a) == IF a.fin /\ a.n # 0 THEN a ELSE Num(1)

\* Math.min(...xs), Math.max(...xs) of a non-empty array
RECURSIVE MinOf(_)
MinOf(xs) == IF Len(xs) = 1 THEN xs[1] ELSE QMin(xs[1], MinOf(Tail(xs)))
RECURSIVE MaxOf(_)
MaxOf(xs) == IF Len(xs) = 1 THEN xs[1] ELSE QMax(xs[1], MaxOf(Tail(xs)))

\* array[i] with a 0-based index: undefined outside the array
At(xs, i) == IF i >= 0 /\ i < Len(xs) THEN xs[i + 1] ELSE NonFinite

\* ------------------------------------------------------------- 2D surface
CanvasWidth  == 800
CanvasHeight == 600
CenterX == Q(CanvasWidth, 2)
CenterY == Q(CanvasHeight, 2)

\* One call on the 2D context: op names the call, (x, y) is the point it is
\* handed, w and h its radius or extent, v the number it prints or shades with.
Op(name, x, y, w, h, v) == [op |-> name, x |-> x, y |-> y, w |-> w, h |-> h, v |-> v]
At0(name, x, y) == Op(name, x, y, Num(0), Num(0), Num(0))

\* cos and sin of the angles the inputs use (whole quarter turns)
Quarter(deg) == (((deg % 360) + 360) % 360) \div 90
Cos90(deg) == CASE Quarter(deg) = 0 -> 1 [] Quarter(deg) = 1 -> 0
                [] Quarter(deg) = 2 -> -1 [] Quarter(deg) = 3 -> 0
Sin90(deg) == CASE Quarter(deg) = 0 -> 0 [] Quarter(deg) = 1 -> 1
                [] Quarter(deg) = 2 -> 0 [] Quarter(deg) = 3 -> -1

\* ctx.translate(c); ctx.rotate(deg); ctx.translate(-c): where the surface
\* puts a point drawn at (x, y) while the transform is in force.
Rotated(o, deg) ==
    LET dx == QSub(o.x, CenterX)
        dy == QSub(o.y, CenterY)
        c  == Num(Cos90(deg))
        s  == Num(Sin90(deg))
    IN [o EXCEPT !.x = QAdd(CenterX, QSub(QMul(dx, c), QMul(dy, s))),
                 !.y = QAdd(CenterY, QAdd(QMul(dx, s), QMul(dy, c)))]

RotateAll(ops, deg) == [i \in DOMAIN ops |-> Rotated(ops[i], deg)]

\* What a render function leaves behind: the calls it made, in order, and
\* whether it threw.
\* transform is the rotation (degrees) of a ctx.save() that was never restored.
Drawn(ops)  == [ops |-> ops, thrown |-> FALSE, transform |-> 0]
Thrown(ops) == [ops |-> ops, thrown |-> TRUE, transform |-> 0]
\* an exception between ctx.save() and ctx.restore()
ThrownRotated(ops, rot) == [Thrown(ops) EXCEPT !.transform = rot % 360]

\* ---------------------------------------------------- renderArrayGeometry
GeometryMargin == 80
MarkerRadius == 6
LabelOffset == 12

GeometryScale(elements, zoom) ==
    LET xs == [i \in DOMAIN elements |-> elements[i].x]
        ys == [i \in DOMAIN elements |-> elements[i].y]
        plotWidth  == Num(CanvasWidth - 2 * GeometryMargin)
        plotHeight == Num(CanvasHeight - 2 * GeometryMargin)
        rangeX == OrOne(QSub(MaxOf(xs), MinOf(xs)))
        rangeY == OrOne(QSub(MaxOf(ys), MinOf(ys)))
    IN QMul(QMul(QMin(QDiv(plotWidth, rangeX), QDiv(plotHeight, rangeY)), Q(8, 10)), zoom)

\* the marker and the label of element idx (0-based)
LabelFirst(idx) == idx
LabelOf(idx) == idx + 1

ElementOps(elements, zoom, idx) ==
    LET xs == [i \in DOMAIN elements |-> elements[i].x]
        ys == [i \in DOMAIN elements |-> elements[i].y]
        scale == GeometryScale(elements, zoom)
        elem == elements[idx + 1]
        midX == QDiv(QAdd(MinOf(xs), MaxOf(xs)), Num(2))
        midY == QDiv(QAdd(MinOf(ys), MaxOf(ys)), Num(2))
        x == QAdd(CenterX, QMul(QSub(elem.x, midX), scale))
        y == QSub(CenterY, QMul(QSub(elem.y, midY), scale))
    IN << Op("arc", x, y, Num(MarkerRadius), Num(0), Num(idx)),
          Op("label", x, QSub(y, Num(LabelOffset)), Num(0), Num(0), Num(LabelOf(idx))) >>

RECURSIVE AllElementOps(_, _, _)
AllElementOps(elements, zoom, idx) ==
    IF idx >= Len(elements) THEN <<>>
    ELSE ElementOps(elements, zoom, idx) \o AllElementOps(elements, zoom, idx + 1)

GeometryAxes ==
    LET m == Num(GeometryMargin)
    IN << At0("moveTo", m, CenterY),
          At0("lineTo", Num(CanvasWidth - GeometryMargin), CenterY),
          At0("moveTo", CenterX, m),
          At0("lineTo", CenterX, Num(CanvasHeight - GeometryMargin)),
          At0("textX", Num(CanvasWidth - GeometryMargin + 10), QAdd(CenterY, Num(4))),
          At0("textY", CenterX, Num(GeometryMargin - 10)) >>

renderArrayGeometry(geometryData, zoom, rot) ==
    LET elements == geometryData.elements
    IN IF Len(elements) = 0 THEN Drawn(<<>>)
       ELSE Drawn(RotateAll(GeometryAxes \o AllElementOps(elements, zoom, 0), rot)
                  \o << Op("title", CenterX, Q(GeometryMargin, 2), Num(0), Num(0), Num(Len(elements))) >>)

\* ---------------------------------------------------- renderAzimuthPattern
PolarInset == 80
DbFloor == 40        \* magnitudes are clamped at -40 dB, the plot's centre
DbLevels == <<0, -10, -20, -30>>
TitleY == 25

PolarRadiusBase == Num((IF CanvasWidth < CanvasHeight THEN CanvasWidth ELSE CanvasHeight) \div 2 - PolarInset)
ScaledRadius(zoom) == QMul(PolarRadiusBase, zoom)

\* radius at which a magnitude (dB) is plotted
PolarRadiusUnclamped(scaledRadius, m) ==
    QMul(scaledRadius, QAdd(Num(1), QDiv(m, Num(DbFloor))))
PolarRadius(scaledRadius, m) ==
    LET mag == QMax(m, Num(-DbFloor))
    IN QMul(scaledRadius, QAdd(Num(1), QDiv(mag, Num(DbFloor))))

RingOps(scaledRadius, k) ==
    LET r == QMul(scaledRadius, QSub(Num(1), Q(Abs(DbLevels[k]), DbFloor)))
    IN << Op("arc", CenterX, CenterY, r, Num(0), Num(DbLevels[k])),
          Op("dbLabel", QSub(CenterX, Num(5)), QSub(CenterY, r), Num(0), Num(0), Num(DbLevels[k])) >>

\* The twelve radial grid lines, 30 degrees apart, leave the centre with
\* length scaledRadius; their labels sit 15 px further out.  They are kept in
\* polar form (v = angle, w = length).
RadialOps(scaledRadius, k, rot) ==
    << At0("moveTo", CenterX, CenterY),
       Op("radialTo", CenterX, CenterY, scaledRadius, Num(0), Num((30 * k + rot) % 360)),
       Op("radialLabel", CenterX, CenterY, QAdd(scaledRadius, Num(15)), Num(0), Num((30 * k + rot) % 360)) >>

RECURSIVE Concat(_)
Concat(ss) == IF Len(ss) = 0 THEN <<>> ELSE Head(ss) \o Concat(Tail(ss))

\* the point of the pattern outline at angles[idx]
PointOp(patternData, scaledRadius, idx) ==
    LET angle == patternData.angles[idx + 1]
        r == PolarRadius(scaledRadius, At(patternData.magnitudes, idx))
        x == QAdd(CenterX, QMul(r, Num(Cos90(angle - 90))))
        y == QAdd(CenterY, QMul(r, Num(Sin90(angle - 90))))
    IN Op(IF idx = 0 THEN "moveTo" ELSE "lineTo", x, y, r, Num(0), Num(idx))

renderAzimuthPattern(patternData, zoom, rot) ==
    LET angles == patternData.angles
        scaledRadius == ScaledRadius(zoom)
        rings  == Concat([k \in 1..Len(DbLevels) |-> RingOps(scaledRadius, k)])
        radial == Concat([k \in 1..12 |-> RadialOps(scaledRadius, k - 1, rot)])
        points == [k \in 1..Len(angles) |-> PointOp(patternData, scaledRadius, k - 1)]
    IN IF Len(angles) = 0 THEN Drawn(<<>>)
       \* angles.forEach is not a function: TypeError after the grid is drawn
       ELSE IF ~patternData.iterable THEN ThrownRotated(RotateAll(rings, rot) \o radial, rot)
       ELSE Drawn(RotateAll(rings, rot) \o radial \o RotateAll(points, rot)
                  \o << At0("closePath", Num(0), Num(0)),
                        At0("title", CenterX, Num(TitleY)) >>)

\* ------------------------------------------------ renderInterferencePattern
HeatMargin == 60
GrayMax == 255
NumTicks == 5
OverlayRadius == 4
PlotWidth  == Num(CanvasWidth - 2 * HeatMargin)
PlotHeight == Num(CanvasHeight - 2 * HeatMargin)
\* 3e8 / 1e9: metres per wavelength
Wavelength == Q(3, 10)

\* grid[i][j], 0-based, of a row that exists
Cell(grid, i, j) == At(grid[i + 1], j)

\* the gray level of a field value
GrayScaled(value) == QFloor(QMul(value, Num(GrayMax + 1)))
Gray(value) == QFloor(QMul(value, Num(GrayMax)))

\* the left edge of column j and the top edge of row i
CellX(j, pixelWidth) == QAdd(Num(HeatMargin), QMul(Num(j), pixelWidth))
CellYTopDown(i, pixelHeight) == QAdd(Num(HeatMargin), QMul(Num(i), pixelHeight))
CellY(i, pixelHeight) ==
    QSub(Num(CanvasHeight - HeatMargin), QMul(Num(i + 1), pixelHeight))

CellOp(magnitude, i, j, pixelWidth, pixelHeight) ==
    Op("fillRect", CellX(j, pixelWidth), CellY(i, pixelHeight),
       QAdd(QCeil(pixelWidth), Num(1)), QAdd(QCeil(pixelHeight), Num(1)),
       Gray(Cell(magnitude, i, j)))

\* the overlay marker of one element; nothing is drawn unless it falls
\* inside the plot area
OverlayOps(elem, xMin, xRange, yMin, yRange) ==
    LET elemX_wl == QDiv(elem.x, Wavelength)
        elemY_wl == QDiv(elem.y, Wavelength)
        canvasX == QAdd(Num(HeatMargin), QMul(QDiv(QSub(elemX_wl, xMin), xRange), PlotWidth))
        canvasY == QSub(Num(CanvasHeight - HeatMargin),
                        QMul(QDiv(QSub(elemY_wl, yMin), yRange), PlotHeight))
    IN IF /\ QLe(Num(HeatMargin), canvasX) /\ QLe(canvasX, Num(CanvasWidth - HeatMargin))
          /\ QLe(Num(HeatMargin), canvasY) /\ QLe(canvasY, Num(CanvasHeight - HeatMargin))
       THEN << Op("arc", canvasX, canvasY, Num(OverlayRadius), Num(0), Num(0)) >>
       ELSE <<>>

\* Number.prototype.toFixed(1): the nearest tenth; "NaN" for NaN
ToFixed1(a) == IF a.fin THEN Q((20 * a.n + a.d) \div (2 * a.d), 10) ELSE NonFinite

XTickOps(i, xMin, xRange) ==
    LET x == QAdd(Num(HeatMargin), QMul(Q(i, NumTicks), PlotWidth))
        xValue == QAdd(xMin, QMul(Q(i, NumTicks), xRange))
    IN << At0("moveTo", x, Num(CanvasHeight - HeatMargin)),
          At0("lineTo", x, Num(CanvasHeight - HeatMargin + 5)),
          Op("tickLabel", x, Num(CanvasHeight - HeatMargin + 18), Num(0), Num(0), ToFixed1(xValue)) >>

YTickOps(i, yMin, yRange) ==
    LET y == QSub(Num(CanvasHeight - HeatMargin), QMul(Q(i, NumTicks), PlotHeight))
        yValue == QAdd(yMin, QMul(Q(i, NumTicks), yRange))
    IN << At0("moveTo", Num(HeatMargin - 5), y),
          At0("lineTo", Num(HeatMargin), y),
          Op("tickLabel", Num(HeatMargin - 8), QAdd(y, Num(4)), Num(0), Num(0), ToFixed1(yValue)) >>

ColorbarOps ==
    LET colorbarWidth  == Num(20)
        colorbarHeight == QDiv(PlotHeight, Num(2))
        colorbarX == Num(CanvasWidth - HeatMargin + 30)
        colorbarY == QAdd(Num(HeatMargin), QDiv(PlotHeight, Num(4)))
        labelX == QAdd(colorbarX, Num(25))
        strip(i) == Op("fillRect", colorbarX, QAdd(colorbarY, Num(i)), colorbarWidth, Num(1),
                       Gray(QSub(Num(1), QDiv(Num(i), colorbarHeight))))
    IN [k \in 1..(colorbarHeight.n \div colorbarHeight.d) |-> strip(k - 1)]
       \o << Op("strokeRect", colorbarX, colorbarY, colorbarWidth, colorbarHeight, Num(0)),
             At0("text1.0", labelX, QAdd(colorbarY, Num(4))),
             At0("text0.5", labelX, QAdd(QAdd(colorbarY, QDiv(colorbarHeight, Num(2))), Num(4))),
             At0("text0.0", labelX, QAdd(QAdd(colorbarY, colorbarHeight), Num(4))),
             At0("textField", QAdd(colorbarX, QDiv(colorbarWidth, Num(2))), QSub(colorbarY, Num(10))) >>

renderInterferencePattern(interferenceData, geometryData, zoom) ==
    LET x_grid == interferenceData.x_grid
        y_grid == interferenceData.y_grid
        magnitude == interferenceData.magnitude
        rows == Len(magnitude)
        cols == Len(magnitude[1])
        xMin == Cell(x_grid, 0, 0)
        xMax == Cell(x_grid, 0, cols - 1)
        yMin == Cell(y_grid, 0, 0)
        yMax == Cell(y_grid, rows - 1, 0)
        xRange == QSub(xMax, xMin)
        yRange == QSub(yMax, yMin)
        pixelWidth  == QDiv(PlotWidth, Num(cols))
        pixelHeight == QDiv(PlotHeight, Num(rows))
        cells == Concat([k \in 1..rows |->
                    [l \in 1..cols |-> CellOp(magnitude, k - 1, l - 1, pixelWidth, pixelHeight)]])
        overlay == IF geometryData.present
                   THEN Concat([k \in 1..Len(geometryData.elements) |->
                            OverlayOps(geometryData.elements[k], xMin, xRange, yMin, yRange)])
                   ELSE <<>>
        axes == << Op("rect", Num(HeatMargin), Num(HeatMargin), PlotWidth, PlotHeight, Num(0)),
                   At0("textXAxis", CenterX, Num(CanvasHeight - 15)),
                   At0("textYAxis", Num(15), CenterY) >>
        xTicks == Concat([k \in 1..(NumTicks + 1) |-> XTickOps(k - 1, xMin, xRange)])
        yTicks == Concat([k \in 1..(NumTicks + 1) |-> YTickOps(k - 1, yMin, yRange)])
    IN IF rows = 0 THEN Drawn(<<>>)
       \* x_grid[0], y_grid[0] or y_grid[rows - 1] is undefined: TypeError
       ELSE IF Len(x_grid) = 0 \/ Len(y_grid) < rows THEN Thrown(<<>>)
       ELSE Drawn(cells \o overlay \o axes \o xTicks \o yTicks \o ColorbarOps
                  \o << At0("title", CenterX, Num(TitleY)) >>)

\* ---------------------------------------------------- createPatternSurface
\* sin and cos of an angle given in degrees (the grids hold quarter turns)
SinDeg(a) == IF a.fin THEN Num(Sin90(a.n \div a.d)) ELSE NonFinite
CosDeg(a) == IF a.fin THEN Num(Cos90(a.n \div a.d)) ELSE NonFinite

Vertex(patternData, i, j) ==
    LET th == Cell(patternData.theta, i, j)
        ph == Cell(patternData.phi, i, j)
        r  == Cell(patternData.magnitude, i, j)
    IN [x |-> QMul(QMul(r, SinDeg(th)), CosDeg(ph)),
        y |-> QMul(QMul(r, SinDeg(th)), SinDeg(ph)),
        z |-> QMul(r, CosDeg(th)),
        hue |-> QMul(Q(6, 10), QSub(Num(1), r))]

\* the two triangles of the quad whose first corner is vertex (i, j)
QuadIndicesFlipped(i, j, thetaSteps) ==
    LET a == i * thetaSteps + j
        b == a + thetaSteps
        c == a + 1
        d == b + 1
    IN <<a, c, b, b, c, d>>
QuadIndices(i, j, thetaSteps) ==
    LET a == i * thetaSteps + j
        b == a + thetaSteps
        c == a + 1
        d == b + 1
    IN <<a, b, c, b, d, c>>

\* the number of quads along a row
QuadColumnsAll(thetaSteps) == thetaSteps
QuadColumns(thetaSteps) == thetaSteps - 1

Mesh(vertices, indices, thrown) ==
    [vertices |-> vertices, indices |-> indices, thrown |-> thrown]
NoMesh == Mesh(<<>>, <<>>, FALSE)

createPatternSurface(patternData) ==
    LET theta == patternData.theta
        phi == patternData.phi
        magnitude == patternData.magnitude
        phiSteps == Len(phi)
        thetaSteps == Len(theta[1])
        vertices == Concat([k \in 1..phiSteps |->
                        [l \in 1..thetaSteps |-> Vertex(patternData, k - 1, l - 1)]])
        indices == Concat([k \in 1..(phiSteps - 1) |->
                        Concat([l \in 1..QuadColumns(thetaSteps) |->
                            QuadIndices(k - 1, l - 1, thetaSteps)])])
    IN \* theta[0] is undefined: TypeError
       IF Len(theta) = 0 THEN Mesh(<<>>, <<>>, TRUE)
       \* theta[i] or magnitude[i] is undefined for a row i of phi: TypeError
       ELSE IF thetaSteps > 0 /\ (Len(theta) < phiSteps \/ Len(magnitude) < phiSteps)
       THEN Mesh(<<>>, <<>>, TRUE)
       ELSE Mesh(vertices, indices, FALSE)

\* ------------------------------------------------------- the drawn surface
\* A payload with its arrays: every slice is present or undefined.
NoGeometry    == [present |-> FALSE, elements |-> <<>>]
NoAzimuth     == [present |-> FALSE, iterable |-> TRUE, angles |-> <<>>, magnitudes |-> <<>>]
NoGrids       == [present |-> FALSE, x_grid |-> <<>>, y_grid |-> <<>>, magnitude |-> <<>>]
NoPattern     == [present |-> FALSE, theta |-> <<>>, phi |-> <<>>, magnitude |-> <<>>]
NoSlices == [array_geometry |-> NoGeometry, interference_pattern |-> NoGrids,
             azimuth_pattern |-> NoAzimuth, pattern_3d |-> NoPattern]

Shown(text, ops, mesh, escaped) ==
    [text |-> text, ops |-> ops, vertices |-> mesh.vertices,
     indices |-> mesh.indices, escaped |-> escaped, transform |-> 0]
Blank == Shown("", <<>>, NoMesh, FALSE)

\* The render boundary of the 2D views: what a render function drew stays on
\* the canvas, and an exception adds the error text.
Caught(r) ==
    [Shown(IF r.thrown THEN "Error rendering visualization" ELSE "", r.ops, NoMesh, FALSE)
        EXCEPT !.transform = r.transform]

\* The canvas context outlives a render: a render that finds the transform
\* ctx in force draws everything under it and adds its own residue.
Under(ctx, shown) ==
    [shown EXCEPT !.ops = RotateAll(@, ctx), !.transform = (ctx + @) % 360]

\* The surface after the viewer rendered a payload that is present and not
\* loading.  The 3D view mounts ThreeDPatternRenderer, whose effect calls
\* createPatternSurface outside any try block.
DrawView(d, mode, zoom, rot) ==
    IF mode = "3d-pattern"
    THEN IF d.pattern_3d.present
         THEN LET m == createPatternSurface(d.pattern_3d)
              IN Shown("", <<>>, m, m.thrown)
         ELSE Blank
    ELSE IF mode = "array-geometry" /\ d.array_geometry.present
    THEN Caught(renderArrayGeometry(d.array_geometry, zoom, rot))
    ELSE IF mode = "interference-plot" /\ d.interference_pattern.present
    THEN Caught(renderInterferencePattern(d.interference_pattern, d.array_geometry, zoom))
    ELSE IF mode = "azimuth-pattern" /\ d.azimuth_pattern.present
    THEN Caught(renderAzimuthPattern(d.azimuth_pattern, zoom, rot))
    ELSE Shown("No data available for this view", <<>>, NoMesh, FALSE)

\* ------------------------------------------------------- payloads rendered
\* n elements one unit apart on a line through the origin
Linear(n, dx, dy) ==
    [present |-> TRUE,
     elements |-> [k \in 1..n |-> [x |-> Q(dx * (2 * (k - 1) - (n - 1)), 2),
                                   y |-> Q(dy * (2 * (k - 1) - (n - 1)), 2)]]]
Geometries ==
    {Linear(n, dir[1], dir[2]) : n \in 0..MaxElements, dir \in {<<1, 0>>, <<0, 1>>, <<1, 1>>}}

\* a angles a quarter turn apart, m magnitudes in dB
DbSamples == <<0, -10, -20, -40, -50>>
Azimuth(a, m, shift) ==
    [present |-> TRUE, iterable |-> TRUE,
     angles |-> [k \in 1..a |-> 90 * (k - 1)],
     magnitudes |-> [k \in 1..m |-> Num(DbSamples[((k - 1 + shift) % Len(DbSamples)) + 1])]]
\* angles arrives as the string "0": it has a length but no forEach
StringAngles == [Azimuth(1, 1, 0) EXCEPT !.iterable = FALSE]
Azimuths == {Azimuth(a, m, shift) : a \in 0..MaxAngles, m \in 0..MaxAngles,
                                    shift \in 0..(Len(DbSamples) - 1)}
            \cup {StringAngles}

\* A grid of the payload has the shape of its magnitude grid, or lacks a row,
\* a column or every row.
ShapeVariants == {"same", "row-short", "column-short", "empty"}
RowsOf(variant, rows) ==
    CASE variant = "empty" -> 0
      [] variant = "row-short" -> (IF rows > 0 THEN rows - 1 ELSE 0)
      [] OTHER -> rows
ColsOf(variant, cols) == IF variant = "column-short" /\ cols > 0 THEN cols - 1 ELSE cols

\* entry k of n evenly spaced coordinates from -2 to 2
Coord(k, n) == IF n <= 1 THEN Num(-2) ELSE QAdd(Num(-2), Q(4 * k, n - 1))
\* a normalised field value, one of 0, 1/GrayLevels, ..., 1
Level(i, j, cols, shift) == Q((i * cols + j + shift) % (GrayLevels + 1), GrayLevels)

XGrid(rows, cols) == [i \in 1..rows |-> [j \in 1..cols |-> Coord(j - 1, cols)]]
YGrid(rows, cols) == [i \in 1..rows |-> [j \in 1..cols |-> Coord(i - 1, rows)]]
Field(rows, cols, shift) ==
    [i \in 1..rows |-> [j \in 1..cols |-> Level(i - 1, j - 1, cols, shift)]]

Interference(rows, cols, vx, vy, shift) ==
    [present |-> TRUE,
     x_grid |-> XGrid(RowsOf(vx, rows), ColsOf(vx, cols)),
     y_grid |-> YGrid(RowsOf(vy, rows), ColsOf(vy, cols)),
     magnitude |-> Field(rows, cols, shift)]
Interferences ==
    {Interference(rows, cols, vx, vy, shift) :
        rows \in 0..MaxGrid, cols \in 0..MaxGrid, vx \in ShapeVariants,
        vy \in ShapeVariants, shift \in 0..GrayLevels}

ThetaGrid(rows, cols) == [i \in 1..rows |-> [j \in 1..cols |-> Num(90 * ((j - 1) % 3))]]
PhiGrid(rows, cols)   == [i \in 1..rows |-> [j \in 1..cols |-> Num(90 * ((i - 1) % 4))]]
Pattern(rows, cols, vt, vm, shift) ==
    [present |-> TRUE,
     theta |-> ThetaGrid(RowsOf(vt, rows), ColsOf(vt, cols)),
     phi |-> PhiGrid(rows, cols),
     magnitude |-> Field(RowsOf(vm, rows), ColsOf(vm, cols), shift)]
Patterns ==
    {Pattern(rows, cols, vt, vm, shift) :
        rows \in 0..MaxGrid, cols \in 0..MaxGrid, vt \in ShapeVariants,
        vm \in ShapeVariants, shift \in 0..GrayLevels}

\* zoom levels the zoom buttons reach: the floor, the start, three steps in,
\* the ceiling
RenderZooms == {Q(ZoomMin, 10), Q(ZoomInit, 10), Q(ZoomInit + 3 * ZoomStep, 10), Q(ZoomMax, 10)}
RenderRotations == {0, 90, 180, 270}

Input(mode, d, zoom, rot) ==
    [mode |-> mode, data |-> d, zoom |-> zoom, rot |-> rot, done |-> FALSE, out |-> Blank]
NoDraw == Input("array-geometry", NoSlices, Q(ZoomInit, 10), 0)

\* the viewer's zoom and rotation reach renderArrayGeometry and
\* renderAzimuthPattern only
RenderInputs ==
    {Input(mode, NoSlices, Q(ZoomInit, 10), 0) : mode \in ViewModes}
    \cup {Input("array-geometry", [NoSlices EXCEPT !.array_geometry = g], zoom, rot) :
            g \in Geometries, zoom \in RenderZooms, rot \in RenderRotations}
    \cup {Input("azimuth-pattern", [NoSlices EXCEPT !.azimuth_pattern = a], zoom, rot) :
            a \in Azimuths, zoom \in RenderZooms, rot \in RenderRotations}
    \cup {Input("interference-plot",
                [NoSlices EXCEPT !.interference_pattern = p, !.array_geometry = g],
                Q(ZoomInit, 10), 0) :
            p \in Interferences, g \in {NoGeometry, Linear(2, 1, 0)}}
    \cup {Input("3d-pattern", [NoSlices EXCEPT !.pattern_3d = p], Q(ZoomInit, 10), 0) :
            p \in Patterns}

\* ------------------------------------------------------------ drag origin
\* History of the drag in progress: pointer x and rotation at mousedown.
NoDrag == [on |-> FALSE, x |-> 0, rotation |-> 0]

\* ------------------------------------------------------------ mixer state
\* App of the image mixer: useState / useRef initial values.  An image is
\* named by the request that produced it, 0 is null.
MixerInit ==
    [outputs |-> [out1 |-> 0, out2 |-> 0], activeOutput |-> "out1", loading |-> FALSE,
     abortControllerRef |-> 0, requests |-> <<>>]

\* ------------------------------------------------------- beamforming state
\* params: the fields the debounce effect depends on, as an array
\* configuration (0 = the defaults) and a steering angle.
DefaultParams == [config |-> 0, azimuth |-> 0]
NoTimer == [left |-> -1, params |-> DefaultParams]
DebounceMs == 500
AutoMs == 100
\* time advances in steps of the shortest delay
DebounceTicks == DebounceMs \div AutoMs
AutoTicks == AutoMs \div AutoMs
\* AppB after mount: the debounce effect has run once.
BeamInit ==
    [params |-> DefaultParams, debounce |-> [left |-> DebounceTicks, params |-> DefaultParams],
     autos |-> {}, loads |-> {}, calcs |-> <<>>, data |-> 0, loading |-> FALSE]

VARIABLES
    \* Pattern3DViewer props and state
    data, loading, viewMode, zoomLevel, rotation, isDragging, dragStart,
    rendered,      \* isDragging / dragStart captured by the handlers of the last render
    canvas,        \* what the 2D canvas shows
    \* ThreeDPatternRenderer
    mounted,       \* the renderer component is mounted
    sceneRef, rendererRef, controlsRef,   \* bundle id held by each ref, 0 = null
    bundles,       \* every scene bundle built so far, by id
    frames,        \* pending requestAnimationFrame requests
    frameSeq,      \* last request id handed out
    log,           \* steps of the last effect flush of the renderer
    crashed,       \* an effect threw: React unmounted the tree
    event,         \* the event whose handler ran last
    \* one run of the render boundary on given inputs
    draw,
    drag,          \* where the drag in progress began (recorded when drag.on)
    mixer,         \* the image mixer application
    beam           \* the beamforming application around the viewer

viewerVars == <<data, loading, viewMode, zoomLevel, rotation, isDragging, dragStart,
                rendered, canvas>>
sceneVars  == <<mounted, sceneRef, rendererRef, controlsRef, bundles, frames,
                frameSeq, log, crashed>>
appVars == <<mixer, beam>>
vars == <<viewerVars, sceneVars, event, draw, drag, appVars>>

\* ------------------------------------------------------------ pure helpers
\* JavaScript %: the result takes the sign of the dividend.
JSRem(a, n) == IF a >= 0 THEN a % n ELSE 0 - ((0 - a) % n)

Min2(a, b) == IF a <= b THEN a ELSE b
Max2(a, b) == IF a >= b THEN a ELSE b

\* getTitle()
GetTitle(mode) ==
    CASE mode = "array-geometry"    -> "Array Geometry"
      [] mode = "interference-plot" -> "Interference Pattern"
      [] mode = "azimuth-pattern"   -> "Azimuth Pattern"
      [] mode = "3d-pattern"        -> "3D Directivity Pattern"
      [] OTHER                      -> "Visualization"

\* JSX: viewMode === "3d-pattern" && data && data.pattern_3d ? <ThreeDPatternRenderer/> : <canvas/>
Show3D(d, mode) == mode = "3d-pattern" /\ d.present /\ d.pattern_3d # "missing"

\* The render effect of Pattern3DViewer: the content of the canvas after it.
RenderCanvas(d, ld, mode) ==
    IF Show3D(d, mode) THEN "unmounted"                      \* canvasRef.current is null
    ELSE IF ld THEN "Calculating pattern..."
    ELSE IF ~d.present THEN GetTitle(mode)
    ELSE IF mode = "3d-pattern" THEN "blank"                 \* cleared, then return
    ELSE IF mode = "array-geometry" /\ d.array_geometry # "missing" THEN "plot:array-geometry"
    ELSE IF mode = "interference-plot" /\ d.interference_pattern # "missing" THEN "plot:interference-plot"
    ELSE IF mode = "azimuth-pattern" /\ d.azimuth_pattern # "missing" THEN "plot:azimuth-pattern"
    ELSE "No data available for this view"

\* ------------------------------------------------- scene bundle (three.js)
\* Objects of a complete scene that own GPU resources.  The two lights own
\* none.  "texture" is the object's own .texture property (no object has
\* one); "map" is the CanvasTexture of a sprite's material.
SceneObjects == {"mesh", "wireframe", "axes", "spriteX", "spriteY", "spriteZ", "grid"}
Sprites      == {"spriteX", "spriteY", "spriteZ"}

NewObject(o) == [geometry |-> "live", material |-> "live", texture |-> "none",
                 map |-> IF o \in Sprites THEN "live" ELSE "none"]
NoObject     == [geometry |-> "none", material |-> "none", texture |-> "none", map |-> "none"]

Release(s) == IF s = "none" THEN "none" ELSE "released"

\* The callback handed to scene.traverse by both disposal sites.
DisposeObject(ob) == [ob EXCEPT !.geometry = Release(@), !.material = Release(@),
                                !.texture = Release(@)]

\* Resources of bundle bu that are still held.
Held(bu) ==
    {<<o, "geometry">> : o \in {x \in SceneObjects : bu.objects[x].geometry = "live"}}
    \cup {<<o, "material">> : o \in {x \in SceneObjects : bu.objects[x].material = "live"}}
    \cup (IF bu.controls = "live" THEN {<<"controls", "controls">>} ELSE {})
    \cup (IF bu.renderer = "live" THEN {<<"renderer", "renderer">>} ELSE {})
    \cup (IF bu.dom THEN {<<"renderer", "domElement">>} ELSE {})
    \cup (IF bu.listener THEN {<<"window", "resize">>} ELSE {})

\* A log entry: the step, the frame requests pending and the bundles that
\* hold resources once the step is done.
Step(name, w) == [step |-> name, pending |-> Cardinality(w.frames),
                  holding |-> {b \in DOMAIN w.bundles : Held(w.bundles[b]) # {}}]

\* The renderer's state as one record, so that the steps of an effect compose.
World == [bundles |-> bundles, frames |-> frames, frameSeq |-> frameSeq,
          sceneRef |-> sceneRef, rendererRef |-> rendererRef,
          controlsRef |-> controlsRef, log |-> log, thrown |-> FALSE]

\* cleanup: window.removeEventListener('resize', handleResize)
RemoveListener(w, b) == [w EXCEPT !.bundles[b].listener = FALSE]

\* Variant: the cleanup forgets to cancel the pending frame request.
CancelNothing(w, b) == [w EXCEPT !.log = Append(@, Step("cancel", w))]

\* cleanup: cancelAnimationFrame(animationId)
CancelAnimation(w, b) ==
    LET w1 == [w EXCEPT !.frames = {f \in @ : f.id # w.bundles[b].animationId}]
    IN  [w1 EXCEPT !.log = Append(@, Step("cancel", w1))]

\* container.removeChild(domElement): a NotFoundError when it is not a child.
RemoveChild(w, b) ==
    IF w.bundles[b].dom THEN [w EXCEPT !.bundles[b].dom = FALSE]
    ELSE [w EXCEPT !.thrown = TRUE]

\* Variant: removeChild without the contains() guard.
RemoveUnguarded(w, b) == RemoveChild(w, b)

\* if (container.contains(domElement)) container.removeChild(domElement)
RemoveIfContained(w, b) == IF w.bundles[b].dom THEN RemoveChild(w, b) ELSE w

\* cleanup: controls.dispose(); scene.traverse(dispose); renderer.dispose(); removeChild
DisposeScene(w, b) ==
    LET w1 == [w EXCEPT !.bundles[b].controls = "released",
                        !.bundles[b].objects  = [o \in SceneObjects |-> DisposeObject(@[o])],
                        !.bundles[b].renderer = "released"]
        w2 == RemoveIfContained(w1, b)
    IN  [w2 EXCEPT !.log = Append(@, Step("dispose", w2))]

\* Variant: the cleanup disposes the scene while the loop is still scheduled.
CleanupDisposeFirst(w, b) == CancelAnimation(DisposeScene(RemoveListener(w, b), b), b)

\* The cleanup function returned by the effect that built bundle b.
Cleanup(w, b) == DisposeScene(CancelAnimation(RemoveListener(w, b), b), b)

\* Effect body, "cleanup of previous scene" through the refs.  scene.clear()
\* only detaches the children of the scene object that the build drops next;
\* resources are tracked per object, attached or not.
DisposePrevious(w) ==
    LET w1 == IF w.sceneRef # 0
              THEN [w EXCEPT !.bundles[w.sceneRef].objects =
                                 [o \in SceneObjects |-> DisposeObject(@[o])]]
              ELSE w
        w2 == IF w.rendererRef # 0
              THEN RemoveIfContained(
                       [w1 EXCEPT !.bundles[w.rendererRef].renderer = "released"],
                       w.rendererRef)
              ELSE w1
        w3 == IF w.controlsRef # 0 /\ ~w2.thrown
              THEN [w2 EXCEPT !.bundles[w.controlsRef].controls = "released"]
              ELSE w2
    IN  IF w.sceneRef # 0 \/ w.rendererRef # 0 \/ w.controlsRef # 0
        THEN [w3 EXCEPT !.log = Append(@, Step("redispose", w3))]
        ELSE w3

\* Effect body from "Scene setup" to the grid helper.  A malformed pattern_3d
\* makes createPatternSurface throw after scene, renderer (appended to the
\* container) and controls exist and before any mesh does.
Build(w, kind) ==
    LET id == Len(w.bundles) + 1
        bu == [objects  |-> [o \in SceneObjects |->
                                IF kind = "ok" THEN NewObject(o) ELSE NoObject],
               renderer |-> "live", dom |-> TRUE, controls |-> "live",
               listener |-> FALSE, animationId |-> 0, ticks |-> 0, size |-> 0,
               complete |-> kind = "ok"]
        w1 == [w EXCEPT !.bundles = Append(@, bu), !.sceneRef = id,
                        !.rendererRef = id, !.controlsRef = id,
                        !.thrown = (kind # "ok")]
    IN  [w1 EXCEPT !.log = Append(@, Step("build", w1))]

\* function animate(): request the next frame, update the controls, render.
Animate(w, b) ==
    LET id == w.frameSeq + 1
    IN  [w EXCEPT !.frameSeq = id,
                  !.frames = @ \cup {[id |-> id, owner |-> b]},
                  !.bundles[b].animationId = id,
                  !.bundles[b].ticks = @ + 1]

\* animate(); window.addEventListener('resize', handleResize)
StartLoop(w, b) ==
    LET w1 == Animate(w, b)
        w2 == [w1 EXCEPT !.log = Append(@, Step("animate", w1))]
    IN  [w2 EXCEPT !.bundles[b].listener = TRUE]

\* The whole effect body for a truthy patternData.
EffectBody(w, kind) ==
    LET w0 == DisposePrevious(w)
        w1 == IF w0.thrown THEN w0 ELSE Build(w0, kind)
    IN  IF w1.thrown THEN w1 ELSE StartLoop(w1, w1.sceneRef)

ClearLog(w) == [w EXCEPT !.log = <<>>]

\* React's effect flush of the renderer for a change of what the viewer shows:
\*   was / now : the renderer was / is mounted,  replaced : patternData is a new object.
Flush(w, was, now, replaced, kind) ==
    IF was /\ ~now THEN                                          \* unmount
        [Cleanup(ClearLog(w), w.sceneRef) EXCEPT !.sceneRef = 0, !.rendererRef = 0,
                                                !.controlsRef = 0]
    ELSE IF ~was /\ now THEN                                     \* mount, fresh refs
        EffectBody(ClearLog([w EXCEPT !.sceneRef = 0, !.rendererRef = 0,
                                      !.controlsRef = 0]), kind)
    ELSE IF was /\ now /\ replaced THEN                          \* payload replaced
        LET w0 == Cleanup(ClearLog(w), w.sceneRef)
        IN  IF w0.thrown THEN w0 ELSE EffectBody(w0, kind)
    ELSE w

Builds(was, now, replaced) == now /\ (~was \/ replaced)

\* Assign the renderer's variables from a world record.  An effect that threw
\* leaves no cleanup behind and React unmounts the tree.
Commit(w, now) ==
    /\ bundles'     = w.bundles
    /\ frames'      = w.frames
    /\ frameSeq'    = w.frameSeq
    /\ sceneRef'    = w.sceneRef
    /\ rendererRef' = w.rendererRef
    /\ controlsRef' = w.controlsRef
    /\ log'         = w.log
    /\ crashed'     = w.thrown
    /\ mounted'     = (now /\ ~w.thrown)

Ev(op, p) == [op |-> op, x |-> p.x, y |-> p.y]
Ev0(op)   == [op |-> op, x |-> 0, y |-> 0]

\* ------------------------------------------------------------------- Init
InitViewer ==
    /\ data = NoData
    /\ loading = FALSE
    /\ viewMode = "array-geometry"
    /\ zoomLevel = ZoomInit
    /\ rotation = 0
    /\ isDragging = FALSE
    /\ dragStart = [x |-> 0, y |-> 0]
    /\ rendered = [isDragging |-> FALSE, dragStart |-> [x |-> 0, y |-> 0]]
    /\ canvas = RenderCanvas(NoData, FALSE, "array-geometry")
    /\ mounted = FALSE
    /\ sceneRef = 0
    /\ rendererRef = 0
    /\ controlsRef = 0
    /\ bundles = <<>>
    /\ frames = {}
    /\ frameSeq = 0
    /\ log = <<>>
    /\ crashed = FALSE
    /\ event = Ev("init", [x |-> 0, y |-> 0])

\* nothing but the viewer runs
Idle == drag = NoDrag /\ mixer = MixerInit /\ beam = BeamInit

Init ==
    /\ InitViewer
    /\ draw = NoDraw
    /\ Idle

\* ------------------------------------------------------- viewer operations
CanvasShown   == ~Show3D(data, viewMode)
ControlsShown == viewMode # "3d-pattern"

\* A synchronous re-render: the handlers capture the new state.
Sync == rendered' = [isDragging |-> isDragging', dragStart |-> dragStart']

\* The render effect reruns on every change of its dependencies.
Redraw == canvas' = RenderCanvas(data', loading', viewMode')

\* Variant: mousedown starts the drag without recording where.
MouseDownNoOrigin(p) ==
    /\ ~crashed /\ CanvasShown
    /\ event' = Ev("MouseDown", p)
    /\ UNCHANGED <<draw, drag, appVars>>
    /\ isDragging' = TRUE
    /\ UNCHANGED dragStart
    /\ Sync
    /\ UNCHANGED <<data, loading, viewMode, zoomLevel, rotation, canvas, sceneVars>>

MouseDown(p) ==
    /\ ~crashed /\ CanvasShown
    /\ event' = Ev("MouseDown", p)
    /\ drag' = IF drag.on THEN [drag EXCEPT !.x = p.x, !.rotation = rotation] ELSE drag
    /\ UNCHANGED <<draw, appVars>>
    /\ isDragging' = TRUE
    /\ dragStart' = [x |-> p.x, y |-> p.y]
    /\ Sync
    /\ UNCHANGED <<data, loading, viewMode, zoomLevel, rotation, canvas, sceneVars>>

\* mousemove is a continuous event: its state updates are rendered later, so
\* the handler reads isDragging and dragStart of the last render.
MouseMove(p) ==
    /\ ~crashed /\ CanvasShown
    /\ event' = Ev("MouseMove", p)
    /\ UNCHANGED <<draw, drag, appVars>>
    /\ IF ~rendered.isDragging
       THEN UNCHANGED <<rotation, dragStart>>
       ELSE /\ rotation' = JSRem(rotation + (p.x - rendered.dragStart.x), FullTurn)
            /\ dragStart' = [x |-> p.x, y |-> p.y]
    /\ UNCHANGED <<data, loading, viewMode, zoomLevel, isDragging, rendered, canvas, sceneVars>>

MouseUp ==
    /\ ~crashed /\ CanvasShown
    /\ event' = Ev0("MouseUp")
    /\ UNCHANGED <<draw, drag, appVars>>
    /\ isDragging' = FALSE
    /\ UNCHANGED dragStart
    /\ Sync
    /\ UNCHANGED <<data, loading, viewMode, zoomLevel, rotation, canvas, sceneVars>>

\* onMouseLeave={handleMouseUp}; mouseleave is a continuous event as well.
MouseLeave ==
    /\ ~crashed /\ CanvasShown
    /\ event' = Ev0("MouseLeave")
    /\ UNCHANGED <<draw, drag, appVars>>
    /\ isDragging' = FALSE
    /\ UNCHANGED <<data, loading, viewMode, zoomLevel, rotation, dragStart, rendered,
                   canvas, sceneVars>>

\* The deferred re-render after continuous events.
Render ==
    /\ ~crashed
    /\ event' = Ev0("Render")
    /\ UNCHANGED <<draw, drag, appVars>>
    /\ rendered # [isDragging |-> isDragging, dragStart |-> dragStart]
    /\ rendered' = [isDragging |-> isDragging, dragStart |-> dragStart]
    /\ UNCHANGED <<data, loading, viewMode, zoomLevel, rotation, isDragging, dragStart,
                   canvas, sceneVars>>

HandleZoomIn ==
    /\ ~crashed /\ ControlsShown
    /\ event' = Ev0("HandleZoomIn")
    /\ UNCHANGED <<draw, drag, appVars>>
    /\ zoomLevel' = Min2(zoomLevel + ZoomStep, ZoomMax)
    /\ UNCHANGED <<isDragging, dragStart>> /\ Sync
    /\ UNCHANGED <<data, loading, viewMode, rotation, canvas, sceneVars>>

\* Variant: zoom-out without the lower clamp.
HandleZoomOutNoFloor ==
    /\ ~crashed /\ ControlsShown
    /\ event' = Ev0("HandleZoomOut")
    /\ UNCHANGED <<draw, drag, appVars>>
    /\ zoomLevel' = zoomLevel - ZoomStep
    /\ UNCHANGED <<isDragging, dragStart>> /\ Sync
    /\ UNCHANGED <<data, loading, viewMode, rotation, canvas, sceneVars>>

HandleZoomOut ==
    /\ ~crashed /\ ControlsShown
    /\ event' = Ev0("HandleZoomOut")
    /\ UNCHANGED <<draw, drag, appVars>>
    /\ zoomLevel' = Max2(zoomLevel - ZoomStep, ZoomMin)
    /\ UNCHANGED <<isDragging, dragStart>> /\ Sync
    /\ UNCHANGED <<data, loading, viewMode, rotation, canvas, sceneVars>>

HandleResetView ==
    /\ ~crashed /\ ControlsShown
    /\ event' = Ev0("HandleResetView")
    /\ UNCHANGED <<draw, drag, appVars>>
    /\ zoomLevel' = ZoomInit
    /\ rotation' = 0
    /\ UNCHANGED <<isDragging, dragStart>> /\ Sync
    /\ UNCHANGED <<data, loading, viewMode, canvas, sceneVars>>

\* What a change of (data, viewMode) does to the ThreeDPatternRenderer.
Remount(d, mode, replaced) ==
    LET now == Show3D(d, mode)
    IN  /\ Builds(mounted, now, replaced) => Len(bundles) < MaxBuilds
        /\ Commit(Flush(World, mounted, now, replaced, d.pattern_3d), now)

SetViewMode(mode) ==
    /\ ~crashed
    /\ event' = Ev0("SetViewMode")
    /\ UNCHANGED <<draw, drag, appVars>>
    /\ viewMode' = mode
    /\ UNCHANGED <<data, loading, zoomLevel, rotation, isDragging, dragStart>>
    /\ Sync /\ Redraw
    /\ Remount(data, mode, FALSE)

\* Variant: a new payload resets the view transform.
SetVisualizationDataResetting(d) ==
    /\ ~crashed
    /\ event' = Ev0("SetVisualizationData")
    /\ UNCHANGED <<draw, drag, appVars>>
    /\ data' = d
    /\ zoomLevel' = ZoomInit /\ rotation' = 0
    /\ UNCHANGED <<loading, viewMode, isDragging, dragStart>>
    /\ Sync /\ Redraw
    /\ Remount(d, viewMode, TRUE)

\* AppB: setVisualizationData(data) with a new response object.
SetVisualizationData(d) ==
    /\ ~crashed
    /\ event' = Ev0("SetVisualizationData")
    /\ UNCHANGED <<draw, drag, appVars>>
    /\ data' = d
    /\ UNCHANGED <<loading, viewMode, zoomLevel, rotation, isDragging, dragStart>>
    /\ Sync /\ Redraw
    /\ Remount(d, viewMode, TRUE)

\* AppB: setLoading(b)
SetLoading(b) ==
    /\ ~crashed
    /\ event' = Ev0("SetLoading")
    /\ UNCHANGED <<draw, drag, appVars>>
    /\ loading' = b
    /\ UNCHANGED <<data, viewMode, zoomLevel, rotation, isDragging, dragStart>>
    /\ Sync /\ Redraw
    /\ UNCHANGED sceneVars

\* ----------------------------------------------------- renderer operations
\* The browser runs a pending animation frame callback: animate().
Tick(f) ==
    /\ ~crashed
    /\ event' = Ev0("Tick")
    /\ UNCHANGED <<draw, drag, appVars>>
    /\ f \in frames
    /\ bundles[f.owner].ticks < MaxTicks
    /\ LET w == Animate([World EXCEPT !.frames = @ \ {f}], f.owner)
       IN  /\ bundles' = w.bundles /\ frames' = w.frames /\ frameSeq' = w.frameSeq
    /\ UNCHANGED <<viewerVars, mounted, sceneRef, rendererRef, controlsRef, log, crashed>>

\* window 'resize': every attached handleResize resizes its camera and renderer.
Resize(sz) ==
    /\ ~crashed
    /\ event' = Ev0("Resize")
    /\ UNCHANGED <<draw, drag, appVars>>
    /\ bundles' = [b \in DOMAIN bundles |->
                     IF bundles[b].listener THEN [bundles[b] EXCEPT !.size = sz]
                     ELSE bundles[b]]
    /\ UNCHANGED <<viewerVars, mounted, sceneRef, rendererRef, controlsRef, frames,
                   frameSeq, log, crashed>>

\* Pattern3DViewer: every handler of the viewer and every change of its props.
Next ==
    \/ \E p \in Pointers : MouseDown(p)
    \/ \E p \in Pointers : MouseMove(p)
    \/ MouseUp
    \/ MouseLeave
    \/ Render
    \/ HandleZoomIn
    \/ HandleZoomOut
    \/ HandleResetView
    \/ \E m \in ViewModes : SetViewMode(m)
    \/ \E d \in Payloads : SetVisualizationData(d)
    \/ \E b \in BOOLEAN : SetLoading(b)

Spec == Init /\ [][Next]_vars

\* ThreeDPatternRenderer: what mounts, replaces and unmounts it, and the
\* browser events its scene bundle reacts to.
NextScene ==
    \/ \E m \in ViewModes : SetViewMode(m)
    \/ \E d \in Payloads : SetVisualizationData(d)
    \/ \E b \in BOOLEAN : SetLoading(b)
    \/ \E f \in frames : Tick(f)
    \/ \E sz \in 1..MaxSize : Resize(sz)

SpecScene == Init /\ [][NextScene]_vars

\* The pointer handlers of the canvas on their own, with the origin of each
\* drag recorded.
InitDrag ==
    /\ InitViewer
    /\ draw = NoDraw
    /\ drag = [NoDrag EXCEPT !.on = TRUE]
    /\ mixer = MixerInit /\ beam = BeamInit

NextDrag ==
    \/ \E p \in Pointers : MouseDown(p)
    \/ \E p \in Pointers : MouseMove(p)
    \/ MouseUp
    \/ MouseLeave
    \/ Render

SpecDrag == InitDrag /\ [][NextDrag]_vars

\* ------------------------------------------------------- render boundary
\* One run of the render effect (or of the 3D renderer's effect) on a payload.
InitRender ==
    /\ InitViewer
    /\ draw \in RenderInputs
    /\ Idle

Draw ==
    /\ ~draw.done
    /\ draw' = [draw EXCEPT !.done = TRUE,
                            !.out = DrawView(draw.data, draw.mode, draw.zoom, draw.rot)]
    /\ UNCHANGED <<viewerVars, sceneVars, event, drag, appVars>>

\* The effect runs again on the same canvas with the same inputs (the payload
\* is replaced by an equal one, or loading went true and false again).
DrawAgain ==
    /\ draw.done
    /\ draw' = [draw EXCEPT !.out = Under(draw.out.transform,
                                          DrawView(draw.data, draw.mode, draw.zoom, draw.rot))]
    /\ UNCHANGED <<viewerVars, sceneVars, event, drag, appVars>>

NextRender == Draw \/ DrawAgain

SpecRender == InitRender /\ [][NextRender]_vars

\* ------------------------------------------------------------ image mixer
\* App of the mixer: a controller is named by the request it belongs to
\* (0 = null); a request is in "flight" until its promise settles, "aborted"
\* between abort() and the rejection reaching onUpdate's catch.
Slots == {"out1", "out2"}
Request(slot) == [status |-> "flight", slot |-> slot]

\* if (abortControllerRef.current) abortControllerRef.current.abort()
\* (NoAbort: the restart without the abort)
NoAbort(requests, controller) == requests
Abort(requests, controller) ==
    IF controller # 0 /\ requests[controller].status = "flight"
    THEN [requests EXCEPT ![controller].status = "aborted"]
    ELSE requests

\* finally { if (abortControllerRef.current === controller) ... }
\* (FinallyAlways: a finally that does not look at the controller)
FinallyAlways(m, id) == [m EXCEPT !.loading = FALSE, !.abortControllerRef = 0]
Finally(m, id) ==
    IF m.abortControllerRef = id
    THEN [m EXCEPT !.loading = FALSE, !.abortControllerRef = 0]
    ELSE m

\* setOutputs(prev => activeOutput === "out1" ? {...prev, out1} : {...prev, out2})
\* (WrittenBoth: both outputs replaced by the new image)
WrittenBoth(outputs, slot, img) == [out1 |-> img, out2 |-> img]
Written(outputs, slot, img) ==
    IF slot = "out1" THEN [outputs EXCEPT !.out1 = img] ELSE [outputs EXCEPT !.out2 = img]

notMixer == <<viewerVars, sceneVars, event, draw, drag, beam>>

\* click on the update button
OnUpdate ==
    /\ Len(mixer.requests) < MaxMix
    /\ mixer' = [mixer EXCEPT
            !.requests = Append(Abort(@, mixer.abortControllerRef), Request(mixer.activeOutput)),
            !.abortControllerRef = Len(mixer.requests) + 1,
            !.loading = TRUE]
    /\ UNCHANGED notMixer

\* the output selector of MixerControls
SetActiveOutput(o) ==
    /\ o # mixer.activeOutput
    /\ mixer' = [mixer EXCEPT !.activeOutput = o]
    /\ UNCHANGED notMixer

\* await mix(...) resolves: the result goes to the slot of onUpdate's closure
MixResolved(id) ==
    /\ id \in DOMAIN mixer.requests
    /\ mixer.requests[id].status = "flight"
    /\ mixer' = Finally([mixer EXCEPT
            !.requests[id].status = "done",
            !.outputs = Written(@, mixer.requests[id].slot, id)], id)
    /\ UNCHANGED notMixer

\* await mix(...) rejects with a network error or a response that is not ok
MixRejected(id) ==
    /\ id \in DOMAIN mixer.requests
    /\ mixer.requests[id].status = "flight"
    /\ mixer' = Finally([mixer EXCEPT !.requests[id].status = "failed"], id)
    /\ UNCHANGED notMixer

\* await mix(...) rejects with the AbortError of an aborted request
MixCancelled(id) ==
    /\ id \in DOMAIN mixer.requests
    /\ mixer.requests[id].status = "aborted"
    /\ mixer' = Finally([mixer EXCEPT !.requests[id].status = "cancelled"], id)
    /\ UNCHANGED notMixer

NextMixer ==
    \/ OnUpdate
    \/ \E o \in Slots : SetActiveOutput(o)
    \/ \E id \in 1..MaxMix : MixResolved(id)
    \/ \E id \in 1..MaxMix : MixRejected(id)
    \/ \E id \in 1..MaxMix : MixCancelled(id)

SpecMixer == Init /\ [][NextMixer]_vars

\* ------------------------------------------------------------ beamforming
\* AppB: params, the debounce effect, the 100 ms timers of scenario load and
\* reset, and the calculation requests.  A timer holds the params of the
\* render whose handleCalculate it will call; time passes in steps of 100 ms.
SteerAngles == {0, 30}
ParamValues == [config : 0..MaxConfig, azimuth : SteerAngles]
Presets == 1..MaxConfig
ScenarioParams(preset) == [config |-> preset, azimuth |-> 0]

\* useEffect on the params fields: cleanup clears the timer, the effect sets
\* a new one whose handleCalculate belongs to the new render
Debounced(b, p) ==
    IF p # b.params THEN [left |-> DebounceTicks, params |-> p] ELSE b.debounce

\* setTimeout(() => handleCalculate(), 100) in a handler whose render had
\* params closure; set records what the handler has just asked to be set
AutoTimer(closure, set) == [left |-> AutoTicks, params |-> closure, set |-> set]

\* handleCalculate up to its await: the request is built from the params of
\* the render that created the function
HandleCalculate(b, closure) ==
    [b EXCEPT !.loading = TRUE,
              !.calcs = Append(@, [params |-> closure, status |-> "flight"])]

notBeam == <<viewerVars, sceneVars, event, draw, drag, mixer>>

\* ControlPanel onParamsChange
UpdateParams(p) ==
    /\ p # beam.params
    /\ beam' = [beam EXCEPT !.params = p, !.debounce = Debounced(beam, p)]
    /\ UNCHANGED notBeam

\* ControlPanel onCalculate (the panels are given loading to disable their
\* buttons)
Calculate ==
    /\ ~beam.loading
    /\ Len(beam.calcs) < MaxCalcs
    /\ beam' = HandleCalculate(beam, beam.params)
    /\ UNCHANGED notBeam

\* 100 ms pass; expired timers run before later ones
Elapse ==
    /\ beam.debounce.left > 0 \/ beam.autos # {}
    /\ beam.debounce.left # 0
    /\ \A t \in beam.autos : t.left > 0
    /\ beam' = [beam EXCEPT
            !.debounce = IF @.left > 0 THEN [@ EXCEPT !.left = @ - 1] ELSE @,
            !.autos = {[t EXCEPT !.left = @ - 1] : t \in @}]
    /\ UNCHANGED notBeam

\* the debounce timer expires
FireDebounce ==
    /\ beam.debounce.left = 0
    /\ Len(beam.calcs) < MaxCalcs
    /\ beam' = HandleCalculate([beam EXCEPT !.debounce = NoTimer], beam.debounce.params)
    /\ UNCHANGED notBeam

\* a 100 ms timer of handleLoadScenario / handleResetToDefault expires
FireAuto(t) ==
    /\ t \in beam.autos
    /\ t.left = 0
    /\ Len(beam.calcs) < MaxCalcs
    /\ beam' = HandleCalculate([beam EXCEPT !.autos = @ \ {t}], t.params)
    /\ UNCHANGED notBeam

\* handleLoadScenario up to its await; StatsPanel disables the button while
\* loading
LoadScenario(preset) ==
    /\ ~beam.loading
    /\ Cardinality(beam.loads) < MaxPending
    /\ [preset |-> preset, params |-> beam.params] \notin beam.loads
    /\ beam' = [beam EXCEPT !.loading = TRUE,
                             !.loads = @ \cup {[preset |-> preset, params |-> beam.params]}]
    /\ UNCHANGED notBeam

\* handleLoadScenario after loadScenarioPreset resolves
ScenarioLoaded(l) ==
    /\ l \in beam.loads
    /\ Cardinality(beam.autos) < MaxPending
    /\ beam' = [beam EXCEPT
            !.loads = @ \ {l},
            !.params = ScenarioParams(l.preset),
            !.debounce = Debounced(beam, ScenarioParams(l.preset)),
            !.autos = @ \cup {AutoTimer(l.params, ScenarioParams(l.preset))}]
    /\ UNCHANGED notBeam

\* handleLoadScenario catch
ScenarioFailed(l) ==
    /\ l \in beam.loads
    /\ beam' = [beam EXCEPT !.loads = @ \ {l}, !.loading = FALSE]
    /\ UNCHANGED notBeam

\* handleResetToDefault; StatsPanel disables the button while loading
ResetToDefault ==
    /\ ~beam.loading
    /\ Cardinality(beam.autos) < MaxPending
    /\ beam' = [beam EXCEPT
            !.params = DefaultParams,
            !.debounce = Debounced(beam, DefaultParams),
            !.autos = @ \cup {AutoTimer(beam.params, DefaultParams)}]
    /\ UNCHANGED notBeam

\* handleCalculate after calculateAllVisualizations resolves
CalcResolved(id) ==
    /\ id \in DOMAIN beam.calcs
    /\ beam.calcs[id].status = "flight"
    /\ beam' = [beam EXCEPT !.calcs[id].status = "done", !.data = id, !.loading = FALSE]
    /\ UNCHANGED notBeam

\* handleCalculate catch and finally
CalcFailed(id) ==
    /\ id \in DOMAIN beam.calcs
    /\ beam.calcs[id].status = "flight"
    /\ beam' = [beam EXCEPT !.calcs[id].status = "failed", !.loading = FALSE]
    /\ UNCHANGED notBeam

LoadRecords == [preset : Presets, params : ParamValues]
AutoRecords == [left : {0}, params : ParamValues, set : ParamValues]

NextBeam ==
    \/ \E p \in ParamValues : UpdateParams(p)
    \/ Calculate
    \/ Elapse
    \/ FireDebounce
    \/ \E t \in AutoRecords : FireAuto(t)
    \/ \E preset \in Presets : LoadScenario(preset)
    \/ \E l \in LoadRecords : ScenarioLoaded(l)
    \/ \E l \in LoadRecords : ScenarioFailed(l)
    \/ ResetToDefault
    \/ \E id \in 1..MaxCalcs : CalcResolved(id)
    \/ \E id \in 1..MaxCalcs : CalcFailed(id)

SpecBeam == Init /\ [][NextBeam]_vars

TypeOK ==
    /\ zoomLevel \in Int /\ rotation \in Int
    /\ isDragging \in BOOLEAN /\ mounted \in BOOLEAN

\* =================================================================== claims
LogSteps == [i \in DOMAIN log |-> log[i].step]
Logged(name) == \E i \in DOMAIN log : log[i].step = name

Rank(name) ==
    CASE name = "cancel"    -> 1
      [] name = "dispose"   -> 2
      [] name = "redispose" -> 3
      [] name = "build"     -> 4
      [] name = "animate"   -> 5

\* C1: when a mounted 3D view receives a new payload, the effect flush runs
\* cancel-animation, then dispose-old-scene, then build-new-scene, then
\* resume-animation: the build finds no frame request pending and no bundle
\* but the new one holding resources, and the first request of the new loop
\* is the only one pending.
C1_ReplaceOrder ==
    (Logged("cancel") /\ Logged("build")) =>
        /\ \A i, j \in DOMAIN log : i < j => Rank(log[i].step) < Rank(log[j].step)
        /\ Logged("dispose")
        /\ \A i \in DOMAIN log :
              log[i].step \in {"cancel", "dispose", "redispose", "build"} => log[i].pending = 0
        /\ \A i \in DOMAIN log : log[i].step = "build" => log[i].holding \subseteq {Len(bundles)}
        /\ ~crashed => \E i \in DOMAIN log : log[i].step = "animate" /\ log[i].pending = 1

\* A payload replacement of a scene that had been animating.
C1_Witness ==
    /\ LogSteps = <<"cancel", "dispose", "redispose", "build", "animate">>
    /\ bundles[1].ticks >= 2
    /\ mounted

\* C2: once a scene bundle is disposed its tick counter never changes again
\* and no frame request of it stays pending.
C2_NoTickAfterDispose ==
    [][ /\ \A b \in DOMAIN bundles :
              bundles[b].renderer = "released" => bundles'[b].ticks = bundles[b].ticks
        /\ \A f \in frames' : bundles'[f.owner].renderer = "live" ]_vars

\* A disposed bundle that had run several ticks, next to a live one.
C2_Witness ==
    \E b \in DOMAIN bundles :
        /\ bundles[b].renderer = "released" /\ bundles[b].ticks >= 2
        /\ \E c \in DOMAIN bundles : bundles[c].renderer = "live" /\ bundles[c].ticks >= 2

\* C3: only the bundle of the mounted view holds a geometry, material,
\* controller, renderer, DOM element or resize listener; every replaced or
\* torn down bundle has released all of them.
C3_ReleasedOnTeardown ==
    \A b \in DOMAIN bundles : Held(bundles[b]) # {} => (mounted /\ b = sceneRef)

SameScene(w1, w2) ==
    /\ w1.bundles = w2.bundles /\ w1.frames = w2.frames /\ w1.frameSeq = w2.frameSeq
    /\ w1.sceneRef = w2.sceneRef /\ w1.rendererRef = w2.rendererRef
    /\ w1.controlsRef = w2.controlsRef

C5_RotationInRange == rotation >= 0 /\ rotation < FullTurn

\* C6: zoomLevel stays within [0.5, 3.0]; it only ever changes to
\* min(zoom + 0.2, 3.0), to max(zoom - 0.2, 0.5) or to the reset value 1.0.
C6_ZoomBounded ==
    /\ [](zoomLevel >= ZoomMin /\ zoomLevel <= ZoomMax)
    /\ [][ /\ event'.op = "HandleZoomIn"  => zoomLevel' = Min2(zoomLevel + ZoomStep, ZoomMax)
           /\ event'.op = "HandleZoomOut" => zoomLevel' = Max2(zoomLevel - ZoomStep, ZoomMin)
           /\ event'.op = "HandleResetView" => zoomLevel' = ZoomInit
           /\ event'.op \notin {"HandleZoomIn", "HandleZoomOut", "HandleResetView"}
                 => zoomLevel' = zoomLevel ]_vars

\* The floor is hit: 0.6 - 0.2 is clamped to 0.5.
C6_Witness == zoomLevel = ZoomMin /\ event.op = "HandleZoomOut"

\* C7: the drag state is Idle -down-> Dragging -move-> Dragging -up|leave->
\* Idle; mousedown records the pointer position as the drag origin, up and
\* leave end in Idle from either state, and no other event changes it.
C7_DragMachine ==
    [][ /\ event'.op = "MouseDown" =>
              isDragging' /\ dragStart' = [x |-> event'.x, y |-> event'.y]
        /\ event'.op \in {"MouseUp", "MouseLeave"} => ~isDragging'
        /\ event'.op \notin {"MouseDown", "MouseUp", "MouseLeave"} =>
              isDragging' = isDragging ]_vars

\* A whole drag: down, a move that rotated, up.
C7_Witness == event.op = "MouseUp" /\ ~isDragging /\ rotation # 0 /\ dragStart.x # 0

\* C8: while Dragging only mousemove changes rotation, each mousemove adds
\* 0.5 x (x - drag-origin x) modulo a full turn, and a mousemove while Idle
\* changes neither rotation nor the drag origin.
C8_OnlyMoveRotates ==
    [][ /\ (isDragging /\ rotation' # rotation) => event'.op = "MouseMove"
        /\ (event'.op = "MouseMove" /\ isDragging) =>
              (rotation' - rotation - (event'.x - dragStart.x)) % FullTurn = 0
        /\ (event'.op = "MouseMove" /\ ~isDragging) =>
              (rotation' = rotation /\ dragStart' = dragStart) ]_vars

\* C9: a new payload, a change of the loading flag and a change of view mode
\* leave zoomLevel and rotation as they are; reset sets them to 1.0 and 0, and
\* a step that takes both back to these values from elsewhere is a reset.
C9_TransformPersists ==
    [][ /\ event'.op \in {"SetVisualizationData", "SetLoading", "SetViewMode"} =>
              (zoomLevel' = zoomLevel /\ rotation' = rotation)
        /\ event'.op = "HandleResetView" => (zoomLevel' = ZoomInit /\ rotation' = 0)
        /\ (zoomLevel # ZoomInit /\ rotation # 0 /\ zoomLevel' = ZoomInit /\ rotation' = 0)
              => event'.op = "HandleResetView" ]_vars

\* Back from the 3D view, on a new payload, with the transform still changed.
C9_Witness ==
    /\ event.op = "SetVisualizationData" /\ data = FullPayload
    /\ viewMode # "3d-pattern" /\ Len(bundles) >= 1
    /\ zoomLevel # ZoomInit /\ rotation # 0

\* data[slice of the active view]
ActiveSlice ==
    CASE viewMode = "array-geometry"    -> data.array_geometry
      [] viewMode = "interference-plot" -> data.interference_pattern
      [] viewMode = "azimuth-pattern"   -> data.azimuth_pattern
      [] viewMode = "3d-pattern"        -> data.pattern_3d

\* C10: in every view mode, a payload without the slice of the active view
\* shows the "No data available" text.
C10_MissingSlicePlaceholder ==
    (~crashed /\ ~loading /\ data.present /\ ActiveSlice = "missing") =>
        canvas = "No data available for this view"

\* ------------------------------------------------- claims about one render
Mode      == draw.mode
Geometry  == draw.data.array_geometry
Polar     == draw.data.azimuth_pattern
Heat      == draw.data.interference_pattern
Surface3D == draw.data.pattern_3d
Ops       == draw.out.ops

RowLens(grid) == [i \in DOMAIN grid |-> Len(grid[i])]

\* the active slice is present but its arrays do not fit each other
ShapeMismatch ==
    \/ /\ Mode = "azimuth-pattern" /\ Polar.present
       /\ Len(Polar.angles) # Len(Polar.magnitudes)
    \/ /\ Mode = "interference-plot" /\ Heat.present
       /\ ~(RowLens(Heat.x_grid) = RowLens(Heat.magnitude)
            /\ RowLens(Heat.y_grid) = RowLens(Heat.magnitude))
    \/ /\ Mode = "3d-pattern" /\ Surface3D.present
       /\ ~(RowLens(Surface3D.theta) = RowLens(Surface3D.phi)
            /\ RowLens(Surface3D.magnitude) = RowLens(Surface3D.phi))

\* C11: a view whose slice is present but shape-mismatched (angles and
\* magnitudes of different lengths, grids of different row or column counts)
\* shows the "No data available" text; it neither throws nor plots.
C11_MismatchPlaceholder ==
    (draw.done /\ ShapeMismatch) =>
        draw.out = Shown("No data available for this view", <<>>, NoMesh, FALSE)

\* the render function of the active view throws on this payload
Raises ==
    \/ /\ Mode = "array-geometry" /\ Geometry.present
       /\ renderArrayGeometry(Geometry, draw.zoom, draw.rot).thrown
    \/ /\ Mode = "interference-plot" /\ Heat.present
       /\ renderInterferencePattern(Heat, Geometry, draw.zoom).thrown
    \/ /\ Mode = "azimuth-pattern" /\ Polar.present
       /\ renderAzimuthPattern(Polar, draw.zoom, draw.rot).thrown
    \/ /\ Mode = "3d-pattern" /\ Surface3D.present
       /\ createPatternSurface(Surface3D).thrown

\* C12: in each of the four view modes an exception raised while drawing,
\* mesh construction included, is caught at the render boundary and shown as
\* the in-surface error text; it never reaches the host application.
C12_ExceptionsCaught ==
    (draw.done /\ Raises) =>
        (~draw.out.escaped /\ draw.out.text = "Error rendering visualization")

FiniteOp(o) == o.x.fin /\ o.y.fin /\ o.w.fin /\ o.h.fin

\* the bounding box of the elements has zero width or zero height
FlatBox ==
    LET xs == [i \in DOMAIN Geometry.elements |-> Geometry.elements[i].x]
        ys == [i \in DOMAIN Geometry.elements |-> Geometry.elements[i].y]
    IN Len(xs) > 0 /\ (MinOf(xs) = MaxOf(xs) \/ MinOf(ys) = MaxOf(ys))

EmptyInput ==
    \/ Mode = "array-geometry" /\ Geometry.present /\ Len(Geometry.elements) = 0
    \/ /\ Mode = "azimuth-pattern" /\ Polar.present
       /\ (Len(Polar.angles) = 0 \/ Len(Polar.magnitudes) = 0)
    \/ Mode = "interference-plot" /\ Heat.present /\ Len(Heat.magnitude) = 0

Degenerate ==
    \/ EmptyInput
    \/ Mode = "array-geometry" /\ Geometry.present /\ FlatBox
    \/ /\ Mode = "interference-plot" /\ Heat.present /\ ~ShapeMismatch
       /\ Len(Heat.magnitude) > 0
       /\ (Len(Heat.magnitude) = 1 \/ Len(Heat.magnitude[1]) <= 1)

\* C13: on a degenerate input (no elements, no angles or no magnitudes, an
\* empty magnitude grid, a bounding box of zero width or height, a grid of
\* one row or one column) every coordinate handed to a draw operation is
\* finite, and an empty input draws nothing at all.
C13_FiniteCoordinates ==
    /\ (draw.done /\ Degenerate) => \A k \in DOMAIN Ops : FiniteOp(Ops[k])
    /\ (draw.done /\ EmptyInput) => Ops = <<>>

IsMarker(o) == o.op = "arc"
IsLabel(o)  == o.op = "label"
Markers == SelectSeq(Ops, IsMarker)
Labels  == SelectSeq(Ops, IsLabel)
GeometryDrawn == draw.done /\ Mode = "array-geometry" /\ Geometry.present

\* C14: at every zoom in [0.5, 3.0] and every rotation, each element marker
\* of the array geometry view lies on the surface: 0 <= x <= width and
\* 0 <= y <= height.
C14_MarkersOnSurface ==
    GeometryDrawn =>
        \A k \in DOMAIN Markers :
            /\ QLe(Num(0), Markers[k].x) /\ QLe(Markers[k].x, Num(CanvasWidth))
            /\ QLe(Num(0), Markers[k].y) /\ QLe(Markers[k].y, Num(CanvasHeight))

FourElementLine ==
    /\ GeometryDrawn
    /\ Geometry.elements = << [x |-> Q(-3, 2), y |-> Num(0)], [x |-> Q(-1, 2), y |-> Num(0)],
                              [x |-> Q(1, 2), y |-> Num(0)], [x |-> Q(3, 2), y |-> Num(0)] >>
    /\ draw.zoom = Num(1)
    /\ draw.rot = 0

\* C15: elements at x = -1.5, -0.5, 0.5, 1.5 on y = 0, zoom 1.0, rotation 0,
\* give four markers on one horizontal line, equally spaced, mirror-symmetric
\* about the vertical centre axis and labelled 1..4 in ascending x; for any
\* elements, the marker of element k (0-based) carries the label k + 1.
C15_LabelsAndSymmetry ==
    /\ FourElementLine =>
        /\ Len(Markers) = 4
        /\ \A k \in 1..4 : Markers[k].y = Markers[1].y
        /\ \A k \in 1..3 : QLt(Markers[k].x, Markers[k + 1].x)
        /\ \A k \in 1..2 : QSub(Markers[k + 1].x, Markers[k].x)
                             = QSub(Markers[k + 2].x, Markers[k + 1].x)
        /\ \A k \in 1..4 : QAdd(Markers[k].x, Markers[5 - k].x) = Num(CanvasWidth)
        /\ \A k \in 1..4 : Labels[k].v = Num(k) /\ Labels[k].x = Markers[k].x
    /\ GeometryDrawn =>
        /\ Len(Markers) = Len(Geometry.elements)
        /\ Len(Labels) = Len(Geometry.elements)
        /\ \A k \in DOMAIN Labels :
            /\ Markers[k].v = Num(k - 1)
            /\ Labels[k].v = Num(k)

C15_Witness == FourElementLine /\ Len(Labels) = 4 /\ Labels[4].v = Num(4)


PolarDrawn ==
    /\ draw.done /\ Mode = "azimuth-pattern" /\ Polar.present
    /\ Polar.iterable /\ Len(Polar.angles) > 0
\* the outline follows the four rings and the twelve radial lines
PlotStart == 2 * Len(DbLevels) + 3 * 12
Point(k) == Ops[PlotStart + k]
FullRadius == QMul(Num(220), draw.zoom)

\* C16: the polar plot draws a magnitude m at radius R * (1 + max(m, -40) / 40),
\* R the zoomed plot radius: never negative, 0 for m <= -40 dB, and
\* [0, -10, -20, -40] dB give [R, 0.75 R, 0.5 R, 0].
C16_PolarRadius ==
    PolarDrawn =>
        /\ \A k \in 1..Len(Polar.angles) :
            k <= Len(Polar.magnitudes) =>
                LET m == Polar.magnitudes[k]
                    r == Point(k).w
                IN /\ QLe(Num(0), r)
                   /\ QLe(m, Num(-40)) => r = Num(0)
                   /\ QLe(Num(-40), m) => QMul(r, Num(40)) = QMul(FullRadius, QAdd(Num(40), m))
        /\ Polar.magnitudes = <<Num(0), Num(-10), Num(-20), Num(-40)>> /\ Len(Polar.angles) = 4 =>
            /\ Point(1).w = FullRadius
            /\ Point(2).w = QMul(Q(3, 4), FullRadius)
            /\ Point(3).w = QMul(Q(1, 2), FullRadius)
            /\ Point(4).w = Num(0)

C16_Witness ==
    /\ PolarDrawn
    /\ \E k \in 1..Len(Polar.angles) :
        k <= Len(Polar.magnitudes) /\ QLt(Polar.magnitudes[k], Num(-40)) /\ Point(k).w = Num(0)

HeatDrawn ==
    /\ draw.done /\ Mode = "interference-plot" /\ Heat.present
    /\ Len(Heat.magnitude) > 0 /\ draw.out.text = ""
HeatRows == Len(Heat.magnitude)
HeatCols == Len(Heat.magnitude[1])
\* the rectangle drawn for cell (i, j), 0-based
CellDrawn(i, j) == Ops[i * HeatCols + j + 1]
HeatCells == (0..(HeatRows - 1)) \X (0..(HeatCols - 1))
Value(c) == Heat.magnitude[c[1] + 1][c[2] + 1]
Shade(c) == CellDrawn(c[1], c[2]).v

\* C17: the heatmap shades a field value v in [0, 1] with the gray level
\* floor(255 v) on all three channels: 255 for 1.0, 0 for 0.0, always within
\* 0..255, and never darker for a larger value.
C17_GrayLevel ==
    HeatDrawn =>
        /\ \A c \in HeatCells :
            /\ Shade(c).fin /\ Shade(c).d = 1
            /\ Shade(c).n \in 0..255
            /\ QLe(Shade(c), QMul(Num(255), Value(c)))
            /\ QLt(QMul(Num(255), Value(c)), QAdd(Shade(c), Num(1)))
            /\ Value(c) = Num(1) => Shade(c) = Num(255)
            /\ Value(c) = Num(0) => Shade(c) = Num(0)
        /\ \A c1, c2 \in HeatCells : QLe(Value(c1), Value(c2)) => QLe(Shade(c1), Shade(c2))

C17_Witness ==
    /\ HeatDrawn
    /\ \E c1, c2 \in HeatCells :
        Value(c1) = Num(1) /\ Value(c2) = Num(0) /\ Shade(c1) = Num(255) /\ Shade(c2) = Num(0)

\* C18: heatmap row i is drawn with its top edge at
\* height - margin - (i + 1) * cellHeight: row 0 is the lowest row and ends
\* on the lower plot border, a higher row index is drawn strictly higher, the
\* last row starts on the upper plot border, and column j starts at
\* margin + j * cellWidth.
C18_RowsBottomUp ==
    HeatDrawn =>
        \A c \in HeatCells :
            LET i == c[1]
                j == c[2]
                cellHeight == Q(480, HeatRows)
                cellWidth  == Q(680, HeatCols)
                top == CellDrawn(i, j).y
            IN /\ QAdd(top, QMul(Num(i + 1), cellHeight)) = Num(540)
               /\ i = 0 => QAdd(top, cellHeight) = Num(540)
               /\ i > 0 => QLt(top, CellDrawn(i - 1, j).y)
               /\ i = HeatRows - 1 => top = Num(60)
               /\ CellDrawn(i, j).x = QAdd(Num(60), QMul(Num(j), cellWidth))

C18_Witness ==
    /\ HeatDrawn /\ HeatRows >= 3 /\ HeatCols >= 2
    /\ CellDrawn(HeatRows - 1, 1).y = Num(60)

MeshBuilt == draw.done /\ Mode = "3d-pattern" /\ Surface3D.present /\ ~draw.out.escaped
PhiSteps == Len(Surface3D.phi)
ThetaSteps == Len(Surface3D.theta[1])
Triangle(t) == << draw.out.indices[3 * t - 2], draw.out.indices[3 * t - 1], draw.out.indices[3 * t] >>
Triangles == {Triangle(t) : t \in 1..(Len(draw.out.indices) \div 3)}

\* C19: for a grid of phiSteps rows and thetaSteps columns (both >= 1) the
\* mesh builder emits phiSteps * thetaSteps vertices and
\* 2 * (phiSteps - 1) * (thetaSteps - 1) triangles.
C19_MeshCounts ==
    (MeshBuilt /\ PhiSteps >= 1 /\ ThetaSteps >= 1) =>
        /\ Len(draw.out.vertices) = PhiSteps * ThetaSteps
        /\ Len(draw.out.indices) = 3 * (2 * (PhiSteps - 1) * (ThetaSteps - 1))

C19_Witness ==
    MeshBuilt /\ PhiSteps >= 3 /\ ThetaSteps >= 2 /\ Len(draw.out.indices) > 0

\* C20: every vertex index the mesh builder emits lies in
\* [0, phiSteps * thetaSteps), and the triangles are exactly (a, a + T, a + 1)
\* and (a + T, a + T + 1, a + 1) for a = i * T + j, i in 0..phiSteps - 2,
\* j in 0..thetaSteps - 2, T = thetaSteps.
C20_MeshIndices ==
    MeshBuilt =>
        /\ \A k \in DOMAIN draw.out.indices :
            draw.out.indices[k] >= 0 /\ draw.out.indices[k] < PhiSteps * ThetaSteps
        /\ Len(draw.out.indices) % 3 = 0
        /\ Cardinality(Triangles) = Len(draw.out.indices) \div 3
        /\ Triangles =
            UNION {{ <<i * ThetaSteps + j, i * ThetaSteps + j + ThetaSteps, i * ThetaSteps + j + 1>>,
                     <<i * ThetaSteps + j + ThetaSteps, i * ThetaSteps + j + ThetaSteps + 1,
                       i * ThetaSteps + j + 1>> } :
                   i \in 0..(PhiSteps - 2), j \in 0..(ThetaSteps - 2)}

C20_Witness ==
    MeshBuilt /\ PhiSteps >= 2 /\ ThetaSteps >= 3 /\ Cardinality(Triangles) >= 4

\* C21: rendering the same (data, viewMode, zoom, rotation) again draws the
\* same operations at the same places, whatever was rendered before, the
\* error path included, and no render leaves a transform on the canvas.
C21_RenderIdempotent ==
    /\ [](draw.done => draw.out.transform = 0)
    /\ [][(draw.done /\ draw'.done) => draw'.out = draw.out]_vars

\* C29: over one drag, after every pointer move the rotation has changed since
\* pointer-down by half the horizontal displacement from the pointer-down
\* position (modulo a full turn), however the movement is split into moves and
\* however many moves are handled before the component re-renders.
C29_DragTotal ==
    [][(event'.op = "MouseMove" /\ isDragging /\ drag.on)
        => (rotation' - drag.rotation - (event'.x - drag.x)) % FullTurn = 0]_vars

\* C30: once a scene bundle has been torn down, the canvas textures of its
\* axis-label sprites are released, for every build and dispose cycle.
C30_SpriteTexturesReleased ==
    \A b \in DOMAIN bundles :
        bundles[b].renderer = "released"
            => \A o \in Sprites : bundles[b].objects[o].map # "live"

\* ---- image mixer
InFlight == {i \in DOMAIN mixer.requests : mixer.requests[i].status = "flight"}
Settles(i, how) ==
    /\ i \in DOMAIN mixer.requests
    /\ mixer.requests[i].status \in {"flight", "aborted"}
    /\ mixer'.requests[i].status \in how
Other(slot) == IF slot = "out1" THEN "out2" ELSE "out1"

C23_LoadingFollowsNewest ==
    /\ [](InFlight # {} => mixer.loading /\ mixer.abortControllerRef \in InFlight)
    /\ []((mixer.requests # <<>>
            /\ mixer.requests[Len(mixer.requests)].status \in {"done", "failed"})
           => ~mixer.loading /\ mixer.abortControllerRef = 0)
    /\ [][(mixer.loading /\ ~mixer'.loading)
            => /\ Len(mixer'.requests) = Len(mixer.requests)
               /\ Settles(Len(mixer.requests), {"done", "failed"})]_vars

C23_Witness ==
    /\ mixer.loading
    /\ \E i, j \in DOMAIN mixer.requests :
        i < j /\ mixer.requests[i].status = "cancelled" /\ mixer.requests[j].status = "flight"

Issued == Len(beam'.calcs) > Len(beam.calcs)
Newest == beam'.calcs[Len(beam'.calcs)]
CalcsInFlight == {i \in DOMAIN beam.calcs : beam.calcs[i].status = "flight"}

\* C25: the calculation started automatically after a scenario load or a
\* reset to defaults carries the parameters that the load or reset has set.
C25_AutoCalcCarriesNewParams ==
    [][\A t \in beam.autos : (Issued /\ t \notin beam'.autos) => Newest.params = t.set]_vars

\* C26: a burst of parameter changes less than 500 ms apart, scenario load and
\* reset included, issues exactly one calculation request, after the last
\* change and with the latest values: every change arms the one debounce
\* timer, and a timer issues a request only as that debounce timer expiring,
\* with the parameters then current.
C26_OneRequestPerBurst ==
    /\ [][beam'.params # beam.params
            => beam'.debounce = [left |-> DebounceTicks, params |-> beam'.params]]_vars
    /\ [][(Issued /\ (beam'.debounce # beam.debounce \/ beam'.autos # beam.autos))
            => /\ beam'.autos = beam.autos
               /\ beam.debounce.left = 0 /\ beam'.debounce = NoTimer
               /\ Newest.params = beam.params]_vars

\* C27: once every calculation request has completed, the data displayed is
\* the response to the request issued last, whatever the order of arrival.
C27_LatestResponseShown ==
    (/\ beam.calcs # <<>>
     /\ CalcsInFlight = {}
     /\ beam.calcs[Len(beam.calcs)].status = "done")
        => beam.data = Len(beam.calcs)

\* C28: loading is true whenever a calculation or scenario-load request is in
\* flight, and false once none is in flight and no recalculation is pending.
C28_LoadingWhileInFlight ==
    /\ (CalcsInFlight # {} \/ beam.loads # {}) => beam.loading
    /\ (CalcsInFlight = {} /\ beam.loads = {} /\ beam.autos = {}
            /\ beam.debounce = NoTimer) => ~beam.loading
====
